---- MODULE Spec2Model ----
(***************************************************************************)
(* Model of the FLIR pan-tilt unit driver, flirptu/ptu.py (class PTU).     *)
(*                                                                         *)
(* The driver is single threaded: every operation is a sequence of round   *)
(* trips on one serial port.  The serial port and the device behind it are *)
(* the environment: what is buffered on the port before a write, and the   *)
(* line a read_until returns, are inputs of every step.                    *)
(*                                                                         *)
(* Python values are tagged records [type, val]; text is a TLA+ string,    *)
(* on which Len, SubSeq and \o work character by character.                *)
(***************************************************************************)
EXTENDS Integers, Sequences, FiniteSets, TLC

VARIABLES
    pc,          \* position of the session: "new", the __init__ step, "raised" (__init__
                 \* raised), "aborted", "ready", "returned" (a call came back), "dead"
    port,        \* the serial port: "none" (not opened), "open", "closed"
    baudrate,    \* serial.baudrate, the local line speed
    hasEcho,     \* whether the attribute __echo has been assigned
    echo,        \* PTU.__echo
    profile,     \* the other cached attributes, by name (assigned ones only)
    startup,     \* the commands __init__ has written to the port, in order
    last         \* the operation that ran last: its inputs, port operations, outcome

vars == <<pc, port, baudrate, hasEcho, echo, profile, startup, last>>

-----------------------------------------------------------------------------
(* Bounds of the model *)

\* how many bytes the environment leaves buffered on the port, when it leaves any
MaxStray == 5
\* the largest motion parameter a caller passes
MaxParam == 10

-----------------------------------------------------------------------------
(* Python values and the builtins the driver uses *)

PyStr(s) == [type |-> "str", val |-> s]
PyBytes(s) == [type |-> "bytes", val |-> s]
PyByteArray(s) == [type |-> "bytearray", val |-> s]
PyBool(b) == [type |-> "bool", val |-> b]
PyInt(n) == [type |-> "int", val |-> n]
PyNone == [type |-> "NoneType", val |-> 0]

\* str.encode(): the bytes of an ASCII text
encode(x) == PyBytes(x.val)
\* bytes.decode(): the text of ASCII bytes
decode(x) == PyStr(x.val)

Min(a, b) == IF a < b THEN a ELSE b
Max(a, b) == IF a > b THEN a ELSE b

\* a slice index as Python normalises it: negative counts from the end, then clamped
SliceIndex(i, n) == IF i < 0 THEN Max(i + n, 0) ELSE Min(i, n)

\* s[a:b] on the characters of s (0-based, b exclusive)
PySlice(s, a, b) == SubSeq(s, SliceIndex(a, Len(s)) + 1, SliceIndex(b, Len(s)))

\* s[a:]
PySliceFrom(s, a) == PySlice(s, a, Len(s))

\* s[i] for 0 <= i < len(s)
CharAt(s, i) == SubSeq(s, i + 1, i + 1)

\* the letters, lower case to upper case and back
ToUpper ==
    "a" :> "A" @@ "b" :> "B" @@ "c" :> "C" @@ "d" :> "D" @@ "e" :> "E" @@ "f" :> "F" @@
    "g" :> "G" @@ "h" :> "H" @@ "i" :> "I" @@ "j" :> "J" @@ "k" :> "K" @@ "l" :> "L" @@
    "m" :> "M" @@ "n" :> "N" @@ "o" :> "O" @@ "p" :> "P" @@ "q" :> "Q" @@ "r" :> "R" @@
    "s" :> "S" @@ "t" :> "T" @@ "u" :> "U" @@ "v" :> "V" @@ "w" :> "W" @@ "x" :> "X" @@
    "y" :> "Y" @@ "z" :> "Z"

ToLower ==
    "A" :> "a" @@ "B" :> "b" @@ "C" :> "c" @@ "D" :> "d" @@ "E" :> "e" @@ "F" :> "f" @@
    "G" :> "g" @@ "H" :> "h" @@ "I" :> "i" @@ "J" :> "j" @@ "K" :> "k" @@ "L" :> "l" @@
    "M" :> "m" @@ "N" :> "n" @@ "O" :> "o" @@ "P" :> "p" @@ "Q" :> "q" @@ "R" :> "r" @@
    "S" :> "s" @@ "T" :> "t" @@ "U" :> "u" @@ "V" :> "v" @@ "W" :> "w" @@ "X" :> "x" @@
    "Y" :> "y" @@ "Z" :> "z"

UpperChar(c) == IF c \in DOMAIN ToUpper THEN ToUpper[c] ELSE c
LowerChar(c) == IF c \in DOMAIN ToLower THEN ToLower[c] ELSE c

RECURSIVE Upper(_)
\* str.upper() / bytes.upper()
Upper(s) == IF s = "" THEN "" ELSE UpperChar(SubSeq(s, 1, 1)) \o Upper(SubSeq(s, 2, Len(s)))

RECURSIVE Lower(_)
\* str.lower()
Lower(s) == IF s = "" THEN "" ELSE LowerChar(SubSeq(s, 1, 1)) \o Lower(SubSeq(s, 2, Len(s)))

Digits == "0123456789"
DigitValue ==
    "0" :> 0 @@ "1" :> 1 @@ "2" :> 2 @@ "3" :> 3 @@ "4" :> 4 @@
    "5" :> 5 @@ "6" :> 6 @@ "7" :> 7 @@ "8" :> 8 @@ "9" :> 9
IsDigit(c) == c \in DOMAIN DigitValue
DigitVal(c) == DigitValue[c]
IsSpace(c) == c \in {" ", "\t", "\n", "\r"}

RECURSIVE AllDigits(_)
AllDigits(s) == s = "" \/ (IsDigit(SubSeq(s, 1, 1)) /\ AllDigits(SubSeq(s, 2, Len(s))))

RECURSIVE DigitsVal(_)
DigitsVal(s) ==
    IF s = "" THEN 0
    ELSE 10 * DigitsVal(SubSeq(s, 1, Len(s) - 1)) + DigitVal(SubSeq(s, Len(s), Len(s)))

RECURSIVE LStrip(_)
LStrip(s) == IF s # "" /\ IsSpace(SubSeq(s, 1, 1)) THEN LStrip(SubSeq(s, 2, Len(s))) ELSE s

RECURSIVE RStrip(_)
RStrip(s) ==
    IF s # "" /\ IsSpace(SubSeq(s, Len(s), Len(s))) THEN RStrip(SubSeq(s, 1, Len(s) - 1)) ELSE s

\* int(text): surrounding white space, an optional sign, decimal digits
\* ([ok |-> FALSE] is Python's ValueError)
ParseInt(s) ==
    LET t == RStrip(LStrip(s))
        signed == t # "" /\ SubSeq(t, 1, 1) \in {"-", "+"}
        body == IF signed THEN SubSeq(t, 2, Len(t)) ELSE t
    IN  IF body # "" /\ AllDigits(body)
        THEN [ok |-> TRUE,
              val |-> IF signed /\ SubSeq(t, 1, 1) = "-" THEN 0 - DigitsVal(body)
                      ELSE DigitsVal(body)]
        ELSE [ok |-> FALSE, val |-> 0]

RECURSIVE NatToStr(_)
NatToStr(n) ==
    IF n < 10 THEN SubSeq(Digits, n + 1, n + 1)
    ELSE NatToStr(n \div 10) \o SubSeq(Digits, (n % 10) + 1, (n % 10) + 1)

\* str(int(n)): the decimal rendering of an integer
IntToStr(n) == IF n < 0 THEN "-" \o NatToStr(0 - n) ELSE NatToStr(n)

RECURSIVE SplitFrom(_, _)
\* str.split(): the maximal runs of non-space characters; cur is the run being read
SplitFrom(s, cur) ==
    IF s = "" THEN (IF cur = "" THEN <<>> ELSE <<cur>>)
    ELSE IF IsSpace(SubSeq(s, 1, 1))
         THEN (IF cur = "" THEN <<>> ELSE <<cur>>) \o SplitFrom(SubSeq(s, 2, Len(s)), "")
         ELSE SplitFrom(SubSeq(s, 2, Len(s)), cur \o SubSeq(s, 1, 1))

Split(s) == SplitFrom(s, "")

\* float(text) accepts, of the texts the model draws: digits with at most one point
IsFloatText(s) ==
    LET t == RStrip(LStrip(s))
        signed == t # "" /\ SubSeq(t, 1, 1) \in {"-", "+"}
        body == IF signed THEN SubSeq(t, 2, Len(t)) ELSE t
    IN  \/ (body # "" /\ AllDigits(body))
        \/ \E i \in 1..Len(body) :
              /\ SubSeq(body, i, i) = "."
              /\ Len(body) > 1
              /\ AllDigits(SubSeq(body, 1, i - 1))
              /\ AllDigits(SubSeq(body, i + 1, Len(body)))

-----------------------------------------------------------------------------
(* The driver's private serial functions *)

\* self._TERM
TERM == "\r\n"

\* what one operation has done so far: the echo attribute, the other attributes
\* it assigned, the port operations, the advisories (warnings), the exception
\* raised if any, the value returned
Ctx(e, h) ==
    [echo |-> e, hasEcho |-> h, attrs |-> <<>>, ops |-> <<>>, adv |-> <<>>, exc |-> "none",
     ret |-> PyNone]

\* sequencing: the value of a step, named once, handed to what follows
Then(v, F(_)) == CHOOSE r \in {F(x) : x \in {v}} : TRUE

Raise(d, e) == [d EXCEPT !.exc = e, !.ret = PyNone]
Warn(d, msg) == [d EXCEPT !.adv = Append(@, msg)]
Return(d, v) == [d EXCEPT !.ret = v]
PortOp(d, op, data) == [d EXCEPT !.ops = Append(@, [op |-> op, data |-> data])]

\* __handle_async_input: contents is what serial.read returned, bytes, which has
\* no encode(); were it text, text + bytes would be a TypeError
handle_async_input(d, contents) ==
    IF contents.type = "bytes" THEN Raise(d, "AttributeError") ELSE Raise(d, "TypeError")

\* __send_command: in_waiting is what the port has buffered when it is asked
send_command(d, command, in_waiting) ==
    LET cmd == IF command.type = "str" THEN encode(command) ELSE command
    IN  IF cmd.type # "bytes" THEN Raise(d, "AssertionError")
        ELSE LET d1 == IF Len(in_waiting) > 0
                       THEN handle_async_input(PortOp(d, "read", in_waiting),
                                               PyBytes(in_waiting))
                       ELSE d
             IN  IF d1.exc # "none" THEN d1 ELSE PortOp(d1, "write", cmd.val)

\* __get_response: line is what serial.read_until(TERM) returns, up to and
\* including the terminator, or less after a timeout
get_response(d, line) == Return(PortOp(d, "read_until", line), decode(PyBytes(line)))

-----------------------------------------------------------------------------
(* send: the public round trip *)

\* a terminator test that also lets a trailing 'P' through
bad_terminator_lax(text) == CharAt(text, Len(text) - 1) \notin {" ", "P"}

\* the terminator check of send: command[-1] != ' ' (text not empty)
bad_terminator(text) == CharAt(text, Len(text) - 1) # " "

limit_commands == {PyStr("LE"), PyStr("LD"), PyStr("LU"), PyStr("PNU"), PyStr("PXU"),
                   PyStr("TNU"), PyStr("TXU")}
execution_commands == {PyStr("I"), PyStr("S")}
monitor_commands == {PyStr("ME"), PyStr("MD")}

\* the three membership tests of send on command[:-1]; command is bytes by then
\* and the lists hold text, and Python's bytes never equal text
unsupported_advisory(d, command) ==
    LET mnemonic == [type |-> command.type, val |-> PySlice(command.val, 0, -1)]
    IN  IF mnemonic \in limit_commands
        THEN Warn(d, "Setting limits is not currently supported")
        ELSE IF mnemonic \in execution_commands
        THEN Warn(d, "Changing execution mode is not currently supported")
        ELSE IF mnemonic \in monitor_commands
        THEN Warn(d, "Monitoring is not currently supported")
        ELSE d

\* a reader that strips the echo whatever the echo attribute says
strip_response_always(strip_echo, echo_on, command, response) ==
    IF strip_echo
    THEN PySlice(response, Len(command), Len(response) - Len(TERM))
    ELSE PySlice(response, 0, Len(response) - Len(TERM))

\* the two returns of send: the response without its echo and terminator
strip_response(strip_echo, echo_on, command, response) ==
    IF strip_echo /\ echo_on
    THEN PySlice(response, Len(command), Len(response) - Len(TERM))
    ELSE PySlice(response, 0, Len(response) - Len(TERM))

\* an echo assignment whose second branch lost its condition
echo_after_else(d, command) ==
    IF command = PyBytes("EE ") THEN [d EXCEPT !.echo = TRUE, !.hasEcho = TRUE]
    ELSE [d EXCEPT !.echo = FALSE, !.hasEcho = TRUE]

\* the echo attribute after a command was sent and its response read
echo_after(d, command) ==
    IF command = PyBytes("EE ") THEN [d EXCEPT !.echo = TRUE, !.hasEcho = TRUE]
    ELSE IF command = PyBytes("ED ") THEN [d EXCEPT !.echo = FALSE, !.hasEcho = TRUE]
    ELSE d

\* send, once the command is bytes ending in a space
send_frame(d, command, strip_echo, in_waiting, line) ==
    LET d1 == send_command(unsupported_advisory(d, command), command, in_waiting)
        d2 == get_response(d1, line)
        response == d2.ret.val
        d3 == echo_after(d2, command)
    IN  IF d1.exc # "none" THEN d1
        ELSE IF strip_echo /\ ~d3.hasEcho THEN Raise(d3, "AttributeError")
        ELSE Return(d3, PyStr(strip_response(strip_echo, d3.echo, command.val, response)))

\* PTU.send(command, strip_echo)
send(d, command, strip_echo, in_waiting, line) ==
    LET upper == [command EXCEPT !.val = Upper(@)]
    IN  IF upper.type = "str"
        THEN IF upper.val = "" THEN Raise(d, "IndexError")
             ELSE IF bad_terminator(upper.val) THEN Raise(d, "ValueError")
             ELSE send_frame(d, encode(upper), strip_echo, in_waiting, line)
        ELSE IF upper.type = "bytes"
        THEN IF decode(upper).val = "" THEN Raise(d, "IndexError")
             ELSE IF bad_terminator(decode(upper).val) THEN Raise(d, "ValueError")
             ELSE send_frame(d, upper, strip_echo, in_waiting, line)
        ELSE Raise(d, "TypeError")

-----------------------------------------------------------------------------
(* The functions that determine the initial state *)

\* an echo resolution that takes every reply other than ON for OFF
determine_echo_state_lenient(d, in_waiting, line) ==
    LET d1 == send_command(d, PyBytes("E "), in_waiting)
        d2 == get_response(d1, line)
        response == d2.ret
    IN  IF d1.exc # "none" THEN d1
        ELSE IF response = PyStr("E * Echoing ON" \o decode(PyBytes(TERM)).val)
        THEN Return(d2, PyBool(TRUE))
        ELSE Return(d2, PyBool(FALSE))

determine_echo_state(d, in_waiting, line) ==
    LET d1 == send_command(d, PyBytes("E "), in_waiting)
        d2 == get_response(d1, line)
        response == d2.ret
    IN  IF d1.exc # "none" THEN d1
        ELSE IF response = PyStr("E * Echoing ON" \o decode(PyBytes(TERM)).val)
        THEN Return(d2, PyBool(TRUE))
        ELSE IF response = PyStr("* Echoing OFF" \o decode(PyBytes(TERM)).val)
        THEN Return(d2, PyBool(FALSE))
        ELSE Raise(d2, "RuntimeError")

\* float(response.split()[k]); the float is kept as the text it was read from
float_token(d, k) ==
    IF d.exc # "none" THEN d
    ELSE LET tokens == Split(d.ret.val)
         IN  IF Len(tokens) < k + 1 THEN Raise(d, "IndexError")
             ELSE IF ~IsFloatText(tokens[k + 1]) THEN Raise(d, "ValueError")
             ELSE Return(d, [type |-> "float", val |-> tokens[k + 1]])

\* int(response.split()[k])
int_token(d, k) ==
    IF d.exc # "none" THEN d
    ELSE LET tokens == Split(d.ret.val)
         IN  IF Len(tokens) < k + 1 THEN Raise(d, "IndexError")
             ELSE IF ~ParseInt(tokens[k + 1]).ok THEN Raise(d, "ValueError")
             ELSE Return(d, PyInt(ParseInt(tokens[k + 1]).val))

\* int(response[k:])
int_from(d, k) ==
    IF d.exc # "none" THEN d
    ELSE IF ~ParseInt(PySliceFrom(d.ret.val, k)).ok THEN Raise(d, "ValueError")
    ELSE Return(d, PyInt(ParseInt(PySliceFrom(d.ret.val, k)).val))

determine_pan_resolution(d, in_waiting, line) ==
    Then(send(d, PyBytes("PR "), TRUE, in_waiting, line), LAMBDA d1 : float_token(d1, 1))

determine_tilt_resolution(d, in_waiting, line) ==
    Then(send(d, PyBytes("TR "), TRUE, in_waiting, line), LAMBDA d1 : float_token(d1, 1))

determine_min_pan(d, in_waiting, line) ==
    Then(send(d, PyBytes("PN "), TRUE, in_waiting, line), LAMBDA d1 : int_from(d1, 26))

determine_max_pan(d, in_waiting, line) ==
    Then(send(d, PyBytes("PX "), TRUE, in_waiting, line), LAMBDA d1 : int_from(d1, 26))

determine_min_tilt(d, in_waiting, line) ==
    Then(send(d, PyBytes("TN "), TRUE, in_waiting, line), LAMBDA d1 : int_from(d1, 27))

determine_max_tilt(d, in_waiting, line) ==
    Then(send(d, PyBytes("TX "), TRUE, in_waiting, line), LAMBDA d1 : int_from(d1, 27))

determine_max_pan_speed(d, in_waiting, line) ==
    Then(send(d, PyBytes("PU "), TRUE, in_waiting, line), LAMBDA d1 : int_token(d1, 5))

determine_max_tilt_speed(d, in_waiting, line) ==
    Then(send(d, PyBytes("TU "), TRUE, in_waiting, line), LAMBDA d1 : int_token(d1, 5))

\* 'pos' if response.split()[5].lower() == "independent" else 'vel'
mode_of(d) ==
    IF d.exc # "none" THEN d
    ELSE IF Len(Split(d.ret.val)) < 6 THEN Raise(d, "IndexError")
    ELSE IF Lower(Split(d.ret.val)[6]) = "independent" THEN Return(d, PyStr("pos"))
    ELSE Return(d, PyStr("vel"))

determine_control_mode(d, in_waiting, line) ==
    Then(send(d, PyBytes("C "), TRUE, in_waiting, line), LAMBDA d1 : mode_of(d1))

-----------------------------------------------------------------------------
(* The properties with setters *)

\* an echo setter that does not read the reply to its command
set_echo_unread(d, on, in_waiting, line) ==
    IF on.type # "bool" THEN Raise(d, "TypeError")
    ELSE LET d1 == send_command(d, PyBytes(IF on.val THEN "EE " ELSE "ED "), in_waiting)
         IN  IF d1.exc # "none" THEN d1
             ELSE [Return(d1, PyNone) EXCEPT !.echo = on.val, !.hasEcho = TRUE]

\* the setter of PTU.echo
set_echo(d, on, in_waiting, line) ==
    IF on.type # "bool" THEN Raise(d, "TypeError")
    ELSE LET d1 == send_command(d, PyBytes(IF on.val THEN "EE " ELSE "ED "), in_waiting)
         IN  IF d1.exc # "none" THEN d1
             ELSE [Return(get_response(d1, line), PyNone)
                      EXCEPT !.echo = on.val, !.hasEcho = TRUE]

\* the setter of PTU.controlMode
set_controlMode(d, mode, in_waiting, line) ==
    IF mode.type # "str" THEN Raise(d, "TypeError")
    ELSE IF Lower(mode.val) \in {"pos", "vel"}
    THEN LET d1 == send_command(d, PyBytes(IF Lower(mode.val) = "pos" THEN "CI " ELSE "CV "),
                                in_waiting)
         IN  IF d1.exc # "none" THEN d1
             ELSE [Return(get_response(d1, line), PyNone)
                      EXCEPT !.attrs = "controlMode" :> PyStr(Lower(mode.val))]
    ELSE Raise(d, "ValueError")

-----------------------------------------------------------------------------
(* Setting pan and tilt values *)

\* the end of every setter: resp[0] != '*' warns and returns False
acknowledged(d, resp, label) ==
    IF d.exc # "none" THEN d
    ELSE IF resp = "" THEN Raise(d, "IndexError")
    ELSE IF CharAt(resp, 0) # "*" THEN Return(Warn(d, label \o resp), PyBool(FALSE))
    ELSE Return(d, PyBool(TRUE))

\* the body the eight single-axis setters share: send the command, await when
\* blocking, then judge the first response; the parameter is an integer, which
\* int() leaves as it is
set_axis(d, mnemonic, label, value, blocking, in_waiting, line, in_waiting2, line2) ==
    Then(send(d, PyBytes(mnemonic \o encode(PyStr(IntToStr(value))).val \o " "), TRUE,
              in_waiting, line),
         LAMBDA d1 :
            Then(IF blocking /\ d1.exc = "none"
                 THEN send(d1, PyBytes("A "), TRUE, in_waiting2, line2)
                 ELSE d1,
                 LAMBDA d2 : acknowledged(d2, d1.ret.val, label)))

setPanPosition(d, pos, blocking, in_waiting, line, in_waiting2, line2) ==
    set_axis(d, "PP", "Pan position response: ", pos, blocking,
             in_waiting, line, in_waiting2, line2)

setTiltPosition(d, pos, blocking, in_waiting, line, in_waiting2, line2) ==
    set_axis(d, "TP", "Tilt position response: ", pos, blocking,
             in_waiting, line, in_waiting2, line2)

setPanSpeed(d, speed, blocking, in_waiting, line, in_waiting2, line2) ==
    set_axis(d, "PS", "Pan speed response: ", speed, blocking,
             in_waiting, line, in_waiting2, line2)

setTiltSpeed(d, speed, blocking, in_waiting, line, in_waiting2, line2) ==
    set_axis(d, "TS", "Tilt speed response: ", speed, blocking,
             in_waiting, line, in_waiting2, line2)

setPanPositionOffset(d, offset, blocking, in_waiting, line, in_waiting2, line2) ==
    set_axis(d, "PO", "Pan position offset response: ", offset, blocking,
             in_waiting, line, in_waiting2, line2)

setTiltPositionOffset(d, offset, blocking, in_waiting, line, in_waiting2, line2) ==
    set_axis(d, "TO", "Tilt position offset response: ", offset, blocking,
             in_waiting, line, in_waiting2, line2)

setPanSpeedOffset(d, offset, blocking, in_waiting, line, in_waiting2, line2) ==
    set_axis(d, "PD", "Pan speed offset response: ", offset, blocking,
             in_waiting, line, in_waiting2, line2)

setTiltSpeedOffset(d, offset, blocking, in_waiting, line, in_waiting2, line2) ==
    set_axis(d, "TD", "Tilt speed offset response: ", offset, blocking,
             in_waiting, line, in_waiting2, line2)

\* a combined setter: the pan setter without blocking, the tilt setter with the
\* caller's blocking, then resp1 and resp2
set_both(d, pan, tilt, pan_value, tilt_value, blocking, in_waiting, line, in_waiting2, line2, in_waiting3, line3) ==
    Then(set_axis(d, pan[1], pan[2], pan_value, FALSE, in_waiting, line, "", ""),
         LAMBDA d1 :
            IF d1.exc # "none" THEN d1
            ELSE Then(set_axis(d1, tilt[1], tilt[2], tilt_value, blocking,
                               in_waiting2, line2, in_waiting3, line3),
                      LAMBDA d2 : IF d2.exc # "none" THEN d2
                                  ELSE Return(d2, PyBool(d1.ret.val /\ d2.ret.val))))

setPosition(d, pan, tilt, blocking, in_waiting, line, in_waiting2, line2, in_waiting3, line3) ==
    set_both(d, <<"PP", "Pan position response: ">>, <<"TP", "Tilt position response: ">>,
             pan, tilt, blocking, in_waiting, line, in_waiting2, line2, in_waiting3, line3)

setSpeed(d, pan, tilt, blocking, in_waiting, line, in_waiting2, line2, in_waiting3, line3) ==
    set_both(d, <<"PS", "Pan speed response: ">>, <<"TS", "Tilt speed response: ">>,
             pan, tilt, blocking, in_waiting, line, in_waiting2, line2, in_waiting3, line3)

setPositionOffset(d, pan, tilt, blocking, in_waiting, line, in_waiting2, line2, in_waiting3, line3) ==
    set_both(d, <<"PO", "Pan position offset response: ">>,
             <<"TO", "Tilt position offset response: ">>,
             pan, tilt, blocking, in_waiting, line, in_waiting2, line2, in_waiting3, line3)

setSpeedOffset(d, pan, tilt, blocking, in_waiting, line, in_waiting2, line2, in_waiting3, line3) ==
    set_both(d, <<"PD", "Pan speed offset response: ">>,
             <<"TD", "Tilt speed offset response: ">>,
             pan, tilt, blocking, in_waiting, line, in_waiting2, line2, in_waiting3, line3)

\* the command of setPositionAndSpeed
position_and_speed(panPos, tiltPos, panSpeed, tiltSpeed) ==
    PyBytes("B" \o encode(PyStr(IntToStr(panPos))).val \o ","
                \o encode(PyStr(IntToStr(tiltPos))).val \o ","
                \o encode(PyStr(IntToStr(panSpeed))).val \o ","
                \o encode(PyStr(IntToStr(tiltSpeed))).val \o " ")

setPositionAndSpeed(d, command, blocking, in_waiting, line, in_waiting2, line2) ==
    Then(send(d, command, TRUE, in_waiting, line),
         LAMBDA d1 :
            Then(IF blocking /\ d1.exc = "none"
                 THEN send(d1, PyBytes("A "), TRUE, in_waiting2, line2)
                 ELSE d1,
                 LAMBDA d2 : acknowledged(d2, d1.ret.val, "Set position and speed response: ")))

-----------------------------------------------------------------------------
(* Getting pan and tilt data *)

getPanPosition(d, in_waiting, line) ==
    Then(send(d, PyBytes("PP "), TRUE, in_waiting, line), LAMBDA d1 : int_from(d1, 26))

getTiltPosition(d, in_waiting, line) ==
    Then(send(d, PyBytes("TP "), TRUE, in_waiting, line), LAMBDA d1 : int_from(d1, 27))

getPanSpeed(d, in_waiting, line) ==
    Then(send(d, PyBytes("PD "), TRUE, in_waiting, line), LAMBDA d1 : int_from(d1, 26))

getTiltSpeed(d, in_waiting, line) ==
    Then(send(d, PyBytes("TD "), TRUE, in_waiting, line), LAMBDA d1 : int_from(d1, 27))

getTargetPanPosition(d, in_waiting, line) ==
    Then(send(d, PyBytes("PO "), TRUE, in_waiting, line), LAMBDA d1 : int_from(d1, 25))

getTargetTiltPosition(d, in_waiting, line) ==
    Then(send(d, PyBytes("TO "), TRUE, in_waiting, line), LAMBDA d1 : int_from(d1, 26))

getTargetPanSpeed(d, in_waiting, line) ==
    Then(send(d, PyBytes("PS "), TRUE, in_waiting, line), LAMBDA d1 : int_token(d1, 5))

getTargetTiltSpeed(d, in_waiting, line) ==
    Then(send(d, PyBytes("TS "), TRUE, in_waiting, line), LAMBDA d1 : int_token(d1, 5))

-----------------------------------------------------------------------------
(* Positions for an angle in degrees *)

\* the float read from text, in millionths
FloatMicro(text) ==
    LET t == RStrip(LStrip(text))
        negative == t # "" /\ SubSeq(t, 1, 1) = "-"
        body == IF t # "" /\ SubSeq(t, 1, 1) \in {"-", "+"} THEN SubSeq(t, 2, Len(t)) ELSE t
        dots == {i \in 1..Len(body) : SubSeq(body, i, i) = "."}
        dot == IF dots = {} THEN Len(body) + 1 ELSE CHOOSE i \in dots : TRUE
        whole == SubSeq(body, 1, dot - 1)
        fraction == SubSeq(SubSeq(body, dot + 1, Len(body)) \o "000000", 1, 6)
        micro == DigitsVal(whole) * 1000000 + DigitsVal(fraction)
    IN  IF negative THEN 0 - micro ELSE micro

\* quotient and remainder of n * 10^k by d > 0, one decimal digit at a time
RECURSIVE LongDiv(_, _, _)
LongDiv(n, d, k) ==
    IF k = 0 THEN [q |-> n \div d, r |-> n % d]
    ELSE LET p == LongDiv(n, d, k - 1)
         IN  [q |-> p.q * 10 + (p.r * 10) \div d, r |-> (p.r * 10) % d]

\* round(n * 10^k / d): to the nearest integer, a tie to the even one
RoundQuotient(n, d, k) ==
    LET p == LongDiv(n, d, k)
    IN  IF 2 * p.r < d THEN p.q
        ELSE IF 2 * p.r > d THEN p.q + 1
        ELSE IF p.q % 2 = 0 THEN p.q ELSE p.q + 1

\* round(angle / (resolution / 3600)), resolution being the float attribute
angle_to_position(d, angle, resolution) ==
    IF FloatMicro(resolution.val) = 0 THEN Raise(d, "ZeroDivisionError")
    ELSE IF FloatMicro(resolution.val) > 0
    THEN Return(d, PyInt(RoundQuotient(angle * 3600, FloatMicro(resolution.val), 6)))
    ELSE Return(d, PyInt(RoundQuotient(0 - angle * 3600, 0 - FloatMicro(resolution.val), 6)))

panAngleToPosition(d, angle, panResolution) == angle_to_position(d, angle, panResolution)

\* the tilt conversion divides by the pan resolution too
tiltAngleToPosition(d, angle, panResolution) == angle_to_position(d, angle, panResolution)

-----------------------------------------------------------------------------
(* Teardown *)

\* PTU.halt()
halt(d, in_waiting, line) ==
    Then(send(d, PyStr("H "), TRUE, in_waiting, line),
         LAMBDA d1 :
            IF d1.exc # "none" THEN d1
            ELSE IF d1.ret.val = "" THEN Raise(d1, "IndexError")
            ELSE Return(d1, PyBool(CharAt(d1.ret.val, 0) = "*")))

\* PTU.__del__(): remaining is what the port has buffered after the halt
del(d, in_waiting, line, remaining) ==
    Then(halt(d, in_waiting, line),
         LAMBDA d1 :
            IF d1.exc # "none" THEN d1
            ELSE Return(PortOp(PortOp(d1, "read", remaining), "close", ""), PyNone))

-----------------------------------------------------------------------------
(* The environment: what the port holds and what the device answers *)

RECURSIVE Repeat(_, _)
Repeat(c, n) == IF n = 0 THEN "" ELSE c \o Repeat(c, n - 1)

\* what may be buffered on the port when the driver looks: nothing, or MaxStray bytes
Stray == {"", Repeat("x", MaxStray)}

\* the lines a read_until may return for a command whose payload is one of
\* payloads: terminated or cut short by the timeout, with or without the echo
Lines(command, payloads) ==
    {""} \cup UNION {{p \o TERM, command \o p \o TERM, p, command \o p} : p \in payloads}

SupportedBauds == {600, 1200, 2400, 4800, 19200, 38400, 57600, 115200}
Bauds == {9600, 19200, 1234}

EchoLines ==
    {"E * Echoing ON" \o TERM, "* Echoing OFF" \o TERM, "", "E * Echoing ON",
     "* Echoing OFF", "* Echoing ON" \o TERM, "E * Echoing OFF" \o TERM, "!" \o TERM}

\* a session start that asks for the tilt resolution before the pan resolution
ProfileSteps_swapped == <<"TR", "PR", "PN", "PX", "TN", "TX", "PU", "TU", "C">>

\* the queries of __init__ after the echo query, in the order of lines 26 to 34
ProfileSteps == <<"PR", "TR", "PN", "PX", "TN", "TX", "PU", "TU", "C">>

ProfileAttr ==
    [PR |-> "panResolution", TR |-> "tiltResolution", PN |-> "minPan", PX |-> "maxPan",
     TN |-> "minTilt", TX |-> "maxTilt", PU |-> "maxPanSpeed", TU |-> "maxTiltSpeed",
     C |-> "controlMode"]

ProfilePayloads ==
    [PR |-> {"* 23.142857 seconds arc per position"},
     TR |-> {"* 11.571429 seconds arc per position"},
     PN |-> {"* Minimum Pan position is -3090"},
     PX |-> {"* Maximum Pan position is 309"},
     TN |-> {"* Minimum Tilt position is -90"},
     TX |-> {"* Maximum Tilt position is 604"},
     PU |-> {"* Maximum Pan speed is 12000 positions/sec"},
     TU |-> {"* Maximum Tilt speed is 12000 positions/sec"},
     C  |-> {"* PTU is in Independent Mode", "* PTU is in Pure Velocity Mode"}]

\* the lines the device may answer during __init__: terminated, with or without
\* the echo, or nothing at all (a timeout)
ProfileLines(q) ==
    {""} \cup UNION {{p \o TERM, q \o " " \o p \o TERM} :
                      p \in ProfilePayloads[q] \cup {"! Illegal argument"}}

-----------------------------------------------------------------------------
(* The session *)

NoProfile == [a \in {} |-> PyNone]

\* what the last operation did
Outcome(op, args, d) ==
    [op |-> op, args |-> args, echoBefore |-> echo, hasEchoBefore |-> hasEcho,
     modeBefore |-> IF "controlMode" \in DOMAIN profile THEN profile["controlMode"].val
                    ELSE "unset",
     ops |-> d.ops, adv |-> d.adv, exc |-> d.exc, ret |-> d.ret]

\* no operation has run, or the caller has taken the last one's outcome
Idle ==
    [op |-> "none", args |-> <<>>, echoBefore |-> FALSE, hasEchoBefore |-> FALSE,
     modeBefore |-> "unset", ops |-> <<>>, adv |-> <<>>, exc |-> "none", ret |-> PyNone]

\* the commands a call wrote to the port, in the order of the writes
written(d) ==
    LET writes == SelectSeq(d.ops, LAMBDA o : o.op = "write")
    IN  [i \in 1..Len(writes) |-> writes[i].data]

Init ==
    /\ pc = "new"
    /\ port = "none"
    /\ baudrate = 0
    /\ hasEcho = FALSE
    /\ echo = FALSE
    /\ profile = NoProfile
    /\ startup = <<>>
    /\ last = Idle

\* __init__ up to the echo query: open the port, negotiate the line speed
init_baud(d, baud, baud_already_set, in_waiting, line) ==
    LET d0 == PortOp(d, "open", "9600")
    IN  IF baud \in SupportedBauds
        THEN LET d1 == IF ~baud_already_set
                       THEN send_command(d0, PyBytes("@(" \o encode(PyStr(IntToStr(baud))).val
                                                     \o ",0,F) "), in_waiting)
                       ELSE d0
                 d2 == IF ~baud_already_set /\ d1.exc = "none"
                       THEN Return(get_response(d1, line), PyNone)
                       ELSE d1
             IN  IF d2.exc # "none" THEN d2 ELSE PortOp(d2, "baudrate", IntToStr(baud))
        ELSE IF baud # 9600
        THEN Warn(d0, "Baud should be one of {600, 1200, 2400, 4800, 9600, 19200, "
                      \o "38400, 57600, 115200}. Defaulting to 9600.")
        ELSE d0

Construct ==
    /\ pc = "new"
    /\ \E baud \in Bauds, baud_already_set \in BOOLEAN, in_waiting \in Stray,
          line \in {"", "*" \o TERM} :
          LET d == init_baud(Ctx(echo, hasEcho), baud, baud_already_set, in_waiting, line)
          IN  /\ pc' = IF d.exc = "none" THEN "echo" ELSE "raised"
              /\ port' = "open"
              /\ baudrate' = IF d.exc = "none" /\ baud \in SupportedBauds THEN baud ELSE 9600
              /\ startup' = startup \o written(d)
              /\ last' = Outcome("__init__",
                                 [baud |-> baud, baud_already_set |-> baud_already_set], d)
    /\ UNCHANGED <<hasEcho, echo, profile>>

\* __init__, line 25
DetermineEcho ==
    /\ pc = "echo"
    /\ \E in_waiting \in Stray, line \in EchoLines :
          LET d == determine_echo_state(Ctx(echo, hasEcho), in_waiting, line)
          IN  /\ pc' = IF d.exc = "none" THEN ProfileSteps[1] ELSE "raised"
              /\ hasEcho' = (d.exc = "none")
              /\ echo' = IF d.exc = "none" THEN d.ret.val ELSE echo
              /\ startup' = startup \o written(d)
              /\ last' = Outcome("_determine_echo_state", <<>>, d)
    /\ UNCHANGED <<port, baudrate, profile>>

determine(q, d, in_waiting, line) ==
    CASE q = "PR" -> determine_pan_resolution(d, in_waiting, line)
      [] q = "TR" -> determine_tilt_resolution(d, in_waiting, line)
      [] q = "PN" -> determine_min_pan(d, in_waiting, line)
      [] q = "PX" -> determine_max_pan(d, in_waiting, line)
      [] q = "TN" -> determine_min_tilt(d, in_waiting, line)
      [] q = "TX" -> determine_max_tilt(d, in_waiting, line)
      [] q = "PU" -> determine_max_pan_speed(d, in_waiting, line)
      [] q = "TU" -> determine_max_tilt_speed(d, in_waiting, line)
      [] q = "C"  -> determine_control_mode(d, in_waiting, line)

\* __init__, lines 26 to 34: one profile query per step
DetermineProfile ==
    /\ \E i \in 1..Len(ProfileSteps) :
          /\ pc = ProfileSteps[i]
          /\ \E in_waiting \in Stray, line \in ProfileLines(pc) :
                LET d == determine(pc, Ctx(echo, hasEcho), in_waiting, line)
                IN  /\ pc' = IF d.exc # "none" THEN "raised"
                             ELSE IF i < Len(ProfileSteps) THEN ProfileSteps[i + 1]
                             ELSE "returned"
                    /\ profile' = IF d.exc = "none"
                                  THEN profile @@ (ProfileAttr[pc] :> d.ret)
                                  ELSE profile
                    /\ echo' = d.echo
                    /\ hasEcho' = d.hasEcho
                    /\ startup' = startup \o written(d)
                    /\ last' = Outcome("_determine_" \o pc, <<>>, d)
    /\ UNCHANGED <<port, baudrate>>

\* commands a caller may pass to send
Commands ==
    {PyBytes("EE "), PyBytes("ED "), PyStr("ee "), PyStr("ED "), PyBytes("PP "),
     PyBytes("LE "), PyStr("i "), PyStr("ME "), PyStr("PP"), PyBytes("H"), PyStr(" A"),
     PyStr(""), PyBytes(""), PyByteArray("PP ")}

\* what the device may answer to a caller's command
Payloads == {"*", "!", "* Current Pan position is 12", "! Illegal argument"}

\* the caller calls send(command, strip_echo)
Send ==
    /\ pc = "ready"
    /\ \E command \in Commands, strip_echo \in BOOLEAN, in_waiting \in Stray :
       \E line \in Lines(Upper(command.val), Payloads) :
          LET d == send(Ctx(echo, hasEcho), command, strip_echo, in_waiting, line)
          IN  /\ echo' = d.echo
              /\ hasEcho' = d.hasEcho
              /\ profile' = d.attrs @@ profile
              /\ last' = Outcome("send", [command |-> command, strip_echo |-> strip_echo], d)
    /\ pc' = "returned"
    /\ UNCHANGED <<port, baudrate, startup>>

\* the caller assigns PTU.echo
SetEcho ==
    /\ pc = "ready"
    /\ \E on \in {PyBool(TRUE), PyBool(FALSE), PyInt(1)}, in_waiting \in Stray,
          line \in Lines("EE ", {"*", "!"}) \cup Lines("ED ", {"*", "!"}) :
          LET d == set_echo(Ctx(echo, hasEcho), on, in_waiting, line)
          IN  /\ echo' = d.echo
              /\ hasEcho' = d.hasEcho
              /\ profile' = d.attrs @@ profile
              /\ last' = Outcome("echo", [on |-> on], d)
    /\ pc' = "returned"
    /\ UNCHANGED <<port, baudrate, startup>>

\* the caller assigns PTU.controlMode
SetControlMode ==
    /\ pc = "ready"
    /\ \E mode \in {PyStr("pos"), PyStr("VEL"), PyStr("x"), PyInt(1)}, in_waiting \in Stray,
          line \in Lines("CI ", {"*", "!"}) \cup Lines("CV ", {"*", "!"}) :
          LET d == set_controlMode(Ctx(echo, hasEcho), mode, in_waiting, line)
          IN  /\ echo' = d.echo
              /\ hasEcho' = d.hasEcho
              /\ profile' = d.attrs @@ profile
              /\ last' = Outcome("controlMode", [mode |-> mode], d)
    /\ pc' = "returned"
    /\ UNCHANGED <<port, baudrate, startup>>

\* the parameters a caller passes to the setters
Params == {-1, MaxParam}

\* the mnemonic each single-axis setter sends
SetterMnemonic ==
    [setPanPosition |-> "PP", setTiltPosition |-> "TP", setPanSpeed |-> "PS",
     setTiltSpeed |-> "TS", setPanPositionOffset |-> "PO", setTiltPositionOffset |-> "TO",
     setPanSpeedOffset |-> "PD", setTiltSpeedOffset |-> "TD"]

Setters == DOMAIN SetterMnemonic

call_setter(op, d, value, blocking, in_waiting, line, in_waiting2, line2) ==
    CASE op = "setPanPosition" ->
           setPanPosition(d, value, blocking, in_waiting, line, in_waiting2, line2)
      [] op = "setTiltPosition" ->
           setTiltPosition(d, value, blocking, in_waiting, line, in_waiting2, line2)
      [] op = "setPanSpeed" ->
           setPanSpeed(d, value, blocking, in_waiting, line, in_waiting2, line2)
      [] op = "setTiltSpeed" ->
           setTiltSpeed(d, value, blocking, in_waiting, line, in_waiting2, line2)
      [] op = "setPanPositionOffset" ->
           setPanPositionOffset(d, value, blocking, in_waiting, line, in_waiting2, line2)
      [] op = "setTiltPositionOffset" ->
           setTiltPositionOffset(d, value, blocking, in_waiting, line, in_waiting2, line2)
      [] op = "setPanSpeedOffset" ->
           setPanSpeedOffset(d, value, blocking, in_waiting, line, in_waiting2, line2)
      [] op = "setTiltSpeedOffset" ->
           setTiltSpeedOffset(d, value, blocking, in_waiting, line, in_waiting2, line2)

\* what the device may answer to a motion command, and to the await command
MotionPayloads == {"*", "! Illegal argument"}
AwaitLines == {"*" \o TERM, "A *" \o TERM, ""}

\* the caller calls one of the eight single-axis setters
SetAxis ==
    /\ pc = "ready"
    /\ \E op \in Setters, value \in Params, blocking \in BOOLEAN, in_waiting \in Stray :
       \E line \in Lines(SetterMnemonic[op] \o IntToStr(value) \o " ", MotionPayloads),
          in_waiting2 \in IF blocking THEN Stray ELSE {""},
          line2 \in IF blocking THEN AwaitLines ELSE {""} :
          LET d == call_setter(op, Ctx(echo, hasEcho), value, blocking,
                               in_waiting, line, in_waiting2, line2)
          IN  /\ echo' = d.echo
              /\ hasEcho' = d.hasEcho
              /\ profile' = d.attrs @@ profile
              /\ last' = Outcome(op, [value |-> value, blocking |-> blocking], d)
    /\ pc' = "returned"
    /\ UNCHANGED <<port, baudrate, startup>>

\* the caller calls setPositionAndSpeed
SetPositionAndSpeed ==
    /\ pc = "ready"
    /\ \E panPos \in Params, tiltPos \in {0}, panSpeed \in {MaxParam}, tiltSpeed \in Params,
          blocking \in BOOLEAN, in_waiting \in Stray :
       \E line \in Lines(position_and_speed(panPos, tiltPos, panSpeed, tiltSpeed).val,
                         MotionPayloads),
          in_waiting2 \in IF blocking THEN Stray ELSE {""},
          line2 \in IF blocking THEN AwaitLines ELSE {""} :
          LET d == setPositionAndSpeed(Ctx(echo, hasEcho),
                                       position_and_speed(panPos, tiltPos, panSpeed, tiltSpeed),
                                       blocking, in_waiting, line, in_waiting2, line2)
          IN  /\ echo' = d.echo
              /\ hasEcho' = d.hasEcho
              /\ profile' = d.attrs @@ profile
              /\ last' = Outcome("setPositionAndSpeed",
                                 [panPos |-> panPos, tiltPos |-> tiltPos, panSpeed |-> panSpeed,
                                  tiltSpeed |-> tiltSpeed, blocking |-> blocking], d)
    /\ pc' = "returned"
    /\ UNCHANGED <<port, baudrate, startup>>

\* the pan and the tilt mnemonic each combined setter sends
CombinedMnemonics ==
    [setPosition |-> <<"PP", "TP">>, setSpeed |-> <<"PS", "TS">>,
     setPositionOffset |-> <<"PO", "TO">>, setSpeedOffset |-> <<"PD", "TD">>]

Combined == DOMAIN CombinedMnemonics

call_combined(op, d, pan, tilt, blocking, in_waiting, line, in_waiting2, line2, in_waiting3, line3) ==
    CASE op = "setPosition" ->
           setPosition(d, pan, tilt, blocking, in_waiting, line, in_waiting2, line2,
                       in_waiting3, line3)
      [] op = "setSpeed" ->
           setSpeed(d, pan, tilt, blocking, in_waiting, line, in_waiting2, line2,
                    in_waiting3, line3)
      [] op = "setPositionOffset" ->
           setPositionOffset(d, pan, tilt, blocking, in_waiting, line, in_waiting2, line2,
                             in_waiting3, line3)
      [] op = "setSpeedOffset" ->
           setSpeedOffset(d, pan, tilt, blocking, in_waiting, line, in_waiting2, line2,
                          in_waiting3, line3)

\* the lines the device may answer to one command of a combined setter: terminated,
\* with or without the echo, or nothing at all (a timeout)
CombinedLines(command) ==
    {""} \cup UNION {{p \o TERM, command \o p \o TERM} : p \in MotionPayloads}

\* the caller calls one of the four combined setters
SetBoth ==
    /\ pc = "ready"
    /\ \E op \in Combined, pan \in {MaxParam}, tilt \in {-1}, blocking \in BOOLEAN,
          in_waiting \in Stray, in_waiting2 \in Stray :
       \E line \in CombinedLines(CombinedMnemonics[op][1] \o IntToStr(pan) \o " "),
          line2 \in CombinedLines(CombinedMnemonics[op][2] \o IntToStr(tilt) \o " "),
          in_waiting3 \in IF blocking THEN Stray ELSE {""},
          line3 \in IF blocking THEN AwaitLines ELSE {""} :
          \E d \in {call_combined(op, Ctx(echo, hasEcho), pan, tilt, blocking, in_waiting,
                                  line, in_waiting2, line2, in_waiting3, line3)} :
              /\ echo' = d.echo
              /\ hasEcho' = d.hasEcho
              /\ profile' = d.attrs @@ profile
              /\ last' = Outcome(op, [pan |-> pan, tilt |-> tilt, blocking |-> blocking], d)
    /\ pc' = "returned"
    /\ UNCHANGED <<port, baudrate, startup>>

\* the caller calls halt
Halt ==
    /\ pc = "ready"
    /\ \E in_waiting \in Stray, line \in Lines("H ", {"*", "!"}) :
          LET d == halt(Ctx(echo, hasEcho), in_waiting, line)
          IN  /\ echo' = d.echo
              /\ hasEcho' = d.hasEcho
              /\ profile' = d.attrs @@ profile
              /\ last' = Outcome("halt", <<>>, d)
    /\ pc' = "returned"
    /\ UNCHANGED <<port, baudrate, startup>>

\* the command of each query and a reply the device gives to it
GetterCommand ==
    [getPanPosition |-> "PP ", getTiltPosition |-> "TP ", getPanSpeed |-> "PD ",
     getTiltSpeed |-> "TD ", getTargetPanPosition |-> "PO ", getTargetTiltPosition |-> "TO ",
     getTargetPanSpeed |-> "PS ", getTargetTiltSpeed |-> "TS "]

GetterPayload ==
    [getPanPosition |-> "* Current Pan position is 1234",
     getTiltPosition |-> "* Current Tilt position is -567",
     getPanSpeed |-> "* Current Pan speed is 1000 positions/sec",
     getTiltSpeed |-> "* Current Tilt speed is 1000 positions/sec",
     getTargetPanPosition |-> "* Target Pan position is 1234",
     getTargetTiltPosition |-> "* Target Tilt position is -567",
     getTargetPanSpeed |-> "* Target Pan speed is 1000 positions/sec",
     getTargetTiltSpeed |-> "* Target Tilt speed is 1000 positions/sec"]

Getters == DOMAIN GetterCommand

call_getter(op, d, in_waiting, line) ==
    CASE op = "getPanPosition" -> getPanPosition(d, in_waiting, line)
      [] op = "getTiltPosition" -> getTiltPosition(d, in_waiting, line)
      [] op = "getPanSpeed" -> getPanSpeed(d, in_waiting, line)
      [] op = "getTiltSpeed" -> getTiltSpeed(d, in_waiting, line)
      [] op = "getTargetPanPosition" -> getTargetPanPosition(d, in_waiting, line)
      [] op = "getTargetTiltPosition" -> getTargetTiltPosition(d, in_waiting, line)
      [] op = "getTargetPanSpeed" -> getTargetPanSpeed(d, in_waiting, line)
      [] op = "getTargetTiltSpeed" -> getTargetTiltSpeed(d, in_waiting, line)

\* the caller calls one of the eight queries
GetAxis ==
    /\ pc = "ready"
    /\ \E op \in Getters, in_waiting \in Stray :
       \E line \in Lines(GetterCommand[op], {GetterPayload[op], "! Illegal argument"}) :
          LET d == call_getter(op, Ctx(echo, hasEcho), in_waiting, line)
          IN  /\ echo' = d.echo
              /\ hasEcho' = d.hasEcho
              /\ profile' = d.attrs @@ profile
              /\ last' = Outcome(op, <<>>, d)
    /\ pc' = "returned"
    /\ UNCHANGED <<port, baudrate, startup>>

\* the angles a caller converts, in degrees
Angles == {-2, 90}

\* the caller calls panAngleToPosition or tiltAngleToPosition
Convert ==
    /\ pc = "ready"
    /\ \E angle \in Angles :
          \/ \E d \in {panAngleToPosition(Ctx(echo, hasEcho), angle, profile["panResolution"])} :
                /\ echo' = d.echo
                /\ hasEcho' = d.hasEcho
                /\ profile' = d.attrs @@ profile
                /\ last' = Outcome("panAngleToPosition", [angle |-> angle], d)
          \/ \E d \in {tiltAngleToPosition(Ctx(echo, hasEcho), angle, profile["panResolution"])} :
                /\ echo' = d.echo
                /\ hasEcho' = d.hasEcho
                /\ profile' = d.attrs @@ profile
                /\ last' = Outcome("tiltAngleToPosition", [angle |-> angle], d)
    /\ pc' = "returned"
    /\ UNCHANGED <<port, baudrate, startup>>

\* the session object is collected: __del__
Teardown ==
    /\ pc \in {"ready", "aborted"}
    /\ \E in_waiting \in Stray, line \in Lines("H ", {"*", "!"}), remaining \in Stray :
          LET d == del(Ctx(echo, hasEcho), in_waiting, line, remaining)
          IN  /\ port' = IF d.exc = "none" THEN "closed" ELSE port
              /\ echo' = d.echo
              /\ hasEcho' = d.hasEcho
              /\ profile' = d.attrs @@ profile
              /\ last' = Outcome("__del__", <<>>, d)
    /\ pc' = "dead"
    /\ UNCHANGED <<baudrate, startup>>

\* the caller takes the outcome of the call, or the exception of __init__, and goes on
CallerResumes ==
    /\ pc \in {"returned", "raised"}
    /\ pc' = IF pc = "returned" THEN "ready" ELSE "aborted"
    /\ last' = Idle
    /\ UNCHANGED <<port, baudrate, hasEcho, echo, profile, startup>>

Next ==
    \/ Construct
    \/ DetermineEcho
    \/ DetermineProfile
    \/ Send
    \/ SetEcho
    \/ SetControlMode
    \/ SetAxis
    \/ SetPositionAndSpeed
    \/ SetBoth
    \/ Halt
    \/ GetAxis
    \/ Convert
    \/ Teardown
    \/ CallerResumes

Spec == Init /\ [][Next]_vars

-----------------------------------------------------------------------------
(* What the properties below read from the last operation *)

\* the port operations of the last operation, by kind
Writes == SelectSeq(last.ops, LAMBDA o : o.op = "write")
LineReads == SelectSeq(last.ops, LAMBDA o : o.op = "read_until")

\* the bytes a..b of s that exist (positions counted from 1)
Sub(s, a, b) ==
    IF a < 1 \/ a > b \/ a > Len(s) THEN ""
    ELSE SubSeq(s, a, IF b < Len(s) THEN b ELSE Len(s))

\* a line that ends with the two-byte terminator
Terminated(line) == Len(line) >= 2 /\ Sub(line, Len(line) - 1, Len(line)) = "\r\n"

\* line without its first k bytes and without its terminator
WithoutEchoAndTerminator(line, k) == Sub(line, k + 1, Len(line) - 2)

\* t occurs in s
Contains(s, t) == \E i \in 1..(Len(s) - Len(t) + 1) : Sub(s, i, i + Len(t) - 1) = t

\* a terminated line whose payload, after the echo of command if there is one,
\* starts with the acknowledgment sigil
Confirms(line, command) ==
    /\ Terminated(line)
    /\ \/ Sub(line, 1, 1) = "*"
       \/ Sub(line, 1, Len(command) + 1) = command \o "*"

\* the last operation was a call of send that wrote a command and read its reply
SendRoundTrip ==
    /\ pc = "returned"
    /\ last.op = "send"
    /\ Len(Writes) = 1
    /\ Len(LineReads) = 1

CommandAPI == Setters \cup Getters \cup {"setPositionAndSpeed", "halt"}
Mutations == Setters \cup {"setPositionAndSpeed"}
ProfileQueries == {ProfileSteps[i] \o " " : i \in 1..Len(ProfileSteps)}

-----------------------------------------------------------------------------
(* C1: the reply to an echo toggle (EE or ED) passed to send is stripped with  *)
(* the echo state that held before the toggle: len(command) leading bytes if   *)
(* echo was on, none if it was off.                                            *)
C1_ToggleReplyUsesPreToggleEcho ==
    (/\ SendRoundTrip
     /\ last.exc = "none"
     /\ last.hasEchoBefore
     /\ last.args.strip_echo
     /\ Writes[1].data \in {"EE ", "ED "}
     /\ Terminated(LineReads[1].data))
    => last.ret.val = WithoutEchoAndTerminator(LineReads[1].data,
                                               IF last.echoBefore THEN Len(Writes[1].data)
                                               ELSE 0)

(* C2: the cached echo state and control mode change only on a command whose   *)
(* reply was read and found to confirm it: a negative acknowledgment, an empty *)
(* reply or a timed-out one leaves them as they were.                          *)
C2_CacheChangesOnlyOnConfirmation ==
    (/\ pc = "returned"
     /\ last.op \in {"send", "echo", "controlMode"}
     /\ last.hasEchoBefore
     /\ \/ echo # last.echoBefore
        \/ profile["controlMode"].val # last.modeBefore)
    => /\ Len(Writes) = 1
       /\ Len(LineReads) = 1
       /\ Confirms(LineReads[1].data, Writes[1].data)

(* C3: bytes buffered on the port before a command is written are all read and *)
(* reported in an advisory, nothing fails, and the command is then written;    *)
(* with nothing buffered nothing is read and the command is written.           *)
C3_SentinelDrainsReportsAndWrites ==
    \A i \in 1..Len(last.ops) :
       (/\ last.ops[i].op = "read"
        /\ last.ops[i].data # ""
        /\ ~(i < Len(last.ops) /\ last.ops[i + 1].op = "close"))
       => /\ \E k \in 1..Len(last.adv) : Contains(last.adv[k], last.ops[i].data)
          /\ i < Len(last.ops)
          /\ last.ops[i + 1].op = "write"

(* C4: when a read times out and returns an empty or unterminated line, every  *)
(* motion setter, halt and query fails (raises, or returns False); it never    *)
(* returns a value parsed from the truncated line.                             *)
C4_TimeoutSurfacesAsFailure ==
    (/\ pc = "returned"
     /\ last.op \in CommandAPI
     /\ \E i \in 1..Len(LineReads) : ~Terminated(LineReads[i].data))
    => \/ last.exc # "none"
       \/ last.ret = PyBool(FALSE)

(* C5: send of a non-empty text or bytes command whose last character is not a *)
(* space raises ValueError before any port operation, echo state unchanged.    *)
C5_BadTerminatorRejectedBeforeIO ==
    (/\ pc = "returned"
     /\ last.op = "send"
     /\ last.args.command.type \in {"str", "bytes"}
     /\ last.args.command.val # ""
     /\ Sub(last.args.command.val, Len(last.args.command.val),
               Len(last.args.command.val)) # " ")
    => /\ last.exc = "ValueError"
       /\ last.ops = <<>>
       /\ echo = last.echoBefore
       /\ hasEcho = last.hasEchoBefore

C5_Witness ==
    /\ pc = "returned"
    /\ last.op = "send"
    /\ last.args.command = PyBytes("H")
    /\ last.exc = "ValueError"
    /\ last.ops = <<>>

(* C6: send with default arguments returns a terminated response without its   *)
(* terminator and, when the driver's echo state is on as the reader looks at   *)
(* it, without exactly len(command) leading bytes; when it is off, without any *)
(* leading byte.                                                               *)
C6_StripByEchoState ==
    (/\ SendRoundTrip
     /\ last.exc = "none"
     /\ last.args.strip_echo
     /\ Terminated(LineReads[1].data))
    => /\ last.ret.type = "str"
       /\ last.ret.val = WithoutEchoAndTerminator(LineReads[1].data,
                                                  IF echo THEN Len(last.args.command.val)
                                                  ELSE 0)

C6_Witness ==
    /\ SendRoundTrip
    /\ last.args.strip_echo
    /\ last.args.command = PyBytes("PP ")
    /\ echo
    /\ LineReads[1].data = "PP * Current Pan position is 12\r\n"
    /\ last.ret = PyStr("* Current Pan position is 12")

\* the payload a setter parsed from its first reply
FirstPayload ==
    WithoutEchoAndTerminator(LineReads[1].data,
                             IF last.echoBefore THEN Len(Writes[1].data) ELSE 0)

(* C7: a mutation whose parsed payload is not empty returns True, without an   *)
(* advisory, exactly when the payload starts with '*'; otherwise it returns    *)
(* False with one advisory that holds the payload, and does not raise.         *)
C7_AcknowledgedByFirstCharacter ==
    (/\ pc = "returned"
     /\ last.op \in Mutations
     /\ Len(LineReads) >= 1
     /\ FirstPayload # "")
    => IF Sub(FirstPayload, 1, 1) = "*"
       THEN last.exc = "none" /\ last.ret = PyBool(TRUE) /\ last.adv = <<>>
       ELSE /\ last.exc = "none"
            /\ last.ret = PyBool(FALSE)
            /\ Len(last.adv) = 1
            /\ Contains(last.adv[1], FirstPayload)

(* C8: teardown never raises and always ends with the port closed.             *)
C8_TeardownClosesPort ==
    pc = "dead" => (last.exc = "none" /\ port = "closed")

(* C9: teardown writes 'H ' and reads its reply, then drains the port, then    *)
(* closes it, whatever the reply; nothing is written after the halt.           *)
C9_TeardownOrder ==
    pc = "dead"
    => /\ Len(last.ops) = 4
       /\ last.ops[1] = [op |-> "write", data |-> "H "]
       /\ last.ops[2].op = "read_until"
       /\ last.ops[3].op = "read"
       /\ last.ops[4].op = "close"

(* C10: at session start the echo state resolves to on exactly for the reply   *)
(* 'E * Echoing ON\r\n' and to off exactly for '* Echoing OFF\r\n'; any other  *)
(* reply aborts session start, and no profile query is written afterwards.     *)
C10_EchoResolution ==
    /\ last.op = "_determine_echo_state"
       => /\ (pc = ProfileSteps[1] /\ echo)
             <=> (Len(LineReads) = 1 /\ LineReads[1].data = "E * Echoing ON\r\n")
          /\ (pc = ProfileSteps[1] /\ ~echo)
             <=> (Len(LineReads) = 1 /\ LineReads[1].data = "* Echoing OFF\r\n")
          /\ pc \in {ProfileSteps[1], "raised"}
          /\ (pc = "raised") <=> (last.exc # "none")
          /\ hasEcho <=> (pc = ProfileSteps[1])
    /\ ~hasEcho
       => /\ profile = NoProfile
          /\ \A i \in 1..Len(Writes) : Writes[i].data \notin ProfileQueries

C10_Witness ==
    /\ last.op = "_determine_echo_state"
    /\ Len(LineReads) = 1
    /\ LineReads[1].data = "* Echoing ON\r\n"
    /\ pc = "raised"
    /\ last.exc = "RuntimeError"

-----------------------------------------------------------------------------
(* The replies the device documents for the queries of session start *)

InformationalQueries == {"PR", "TR", "PN", "PX", "TN", "TX", "PU", "TU"}

\* the fixed text before the number, for the queries read at a fixed offset
ExpectedPrefix ==
    [PN |-> "* Minimum Pan position is ", PX |-> "* Maximum Pan position is ",
     TN |-> "* Minimum Tilt position is ", TX |-> "* Maximum Tilt position is "]

\* the tokens around the number, for the queries read by token position
ExpectedTokens ==
    [PR |-> <<"*", "", "seconds", "arc", "per", "position">>,
     TR |-> <<"*", "", "seconds", "arc", "per", "position">>,
     PU |-> <<"*", "Maximum", "Pan", "speed", "is", "", "positions/sec">>,
     TU |-> <<"*", "Maximum", "Tilt", "speed", "is", "", "positions/sec">>]

\* text is an optional minus sign and digits
IsIntegerText(text) ==
    /\ text # ""
    /\ IF Sub(text, 1, 1) = "-" THEN Len(text) > 1 /\ AllDigits(Sub(text, 2, Len(text)))
       ELSE AllDigits(text)

\* payload has the shape documented for the reply to query q
WellShaped(q, payload) ==
    IF q \in DOMAIN ExpectedPrefix
    THEN /\ Sub(payload, 1, Len(ExpectedPrefix[q])) = ExpectedPrefix[q]
         /\ IsIntegerText(Sub(payload, Len(ExpectedPrefix[q]) + 1, Len(payload)))
    ELSE LET tokens == Split(payload)
             expected == ExpectedTokens[q]
         IN  /\ Len(tokens) = Len(expected)
             /\ \A i \in 1..Len(expected) :
                   IF expected[i] # "" THEN tokens[i] = expected[i]
                   ELSE IF q \in {"PR", "TR"} THEN IsFloatText(tokens[i])
                   ELSE IsIntegerText(tokens[i])

\* a terminated line that holds, after the echoed command when the driver's echo
\* state is on, a payload of the shape documented for q
WellShapedReply(q, line, echo_on) ==
    /\ Terminated(line)
    /\ echo_on => Sub(line, 1, Len(q) + 1) = q \o " "
    /\ WellShaped(q, WithoutEchoAndTerminator(line, IF echo_on THEN Len(q) + 1 ELSE 0))

(* C11: during session start an informational query (PR, TR, PN, PX, TN, TX,   *)
(* PU, TU) yields a value only from a reply of the expected shape; any other   *)
(* reply aborts session start.                                                 *)
C11_IllShapedReplyAborts ==
    \A q \in InformationalQueries :
       (/\ last.op = "_determine_" \o q
        /\ Len(LineReads) = 1
        /\ ~WellShapedReply(q, LineReads[1].data, last.echoBefore))
       => /\ last.exc # "none"
          /\ pc = "raised"
          /\ ProfileAttr[q] \notin DOMAIN profile

\* the payload the driver parses from the reply to the control-mode query
ControlModePayload ==
    WithoutEchoAndTerminator(LineReads[1].data, IF last.echoBefore THEN Len("C ") ELSE 0)

(* C12: control-mode determination returns 'pos' exactly when the 6th          *)
(* whitespace-delimited token of the reply to 'C ' is 'independent' ignoring   *)
(* case, and 'vel' for every other reply, also one with fewer than six tokens. *)
C12_ControlModeBySixthToken ==
    (/\ last.op = "_determine_C"
     /\ Len(LineReads) = 1)
    => /\ last.exc = "none"
       /\ last.ret = IF /\ Len(Split(ControlModePayload)) >= 6
                        /\ Lower(Split(ControlModePayload)[6]) = "independent"
                     THEN PyStr("pos")
                     ELSE PyStr("vel")

\* the port operations of one round trip of command, and of one of any command
\* other than the await command
IsRoundTrip(i, command) ==
    /\ i + 1 <= Len(last.ops)
    /\ last.ops[i] = [op |-> "write", data |-> command]
    /\ last.ops[i + 1].op = "read_until"

IsMotionRoundTrip(i) ==
    /\ i + 1 <= Len(last.ops)
    /\ last.ops[i].op = "write"
    /\ last.ops[i].data # "A "
    /\ last.ops[i + 1].op = "read_until"

(* C13: a mutation called with blocking makes exactly two round trips, the     *)
(* motion command and then the await command 'A ', whatever the first reply;   *)
(* without blocking it makes exactly one and writes no 'A '; the value it      *)
(* returns depends on the first reply only.                                    *)
C13_BlockingAddsOneAwait ==
    (/\ pc = "returned"
     /\ last.op \in Mutations)
    => /\ IsMotionRoundTrip(1)
       /\ IF last.args.blocking
          THEN Len(last.ops) = 4 /\ IsRoundTrip(3, "A ")
          ELSE Len(last.ops) = 2
       /\ last.exc = "none" => last.ret = PyBool(Sub(FirstPayload, 1, 1) = "*")

\* the payloads a combined setter parsed from its pan and its tilt reply
PanPayload ==
    WithoutEchoAndTerminator(last.ops[2].data,
                             IF last.echoBefore THEN Len(last.ops[1].data) ELSE 0)
TiltPayload ==
    WithoutEchoAndTerminator(last.ops[4].data,
                             IF last.echoBefore THEN Len(last.ops[3].data) ELSE 0)

(* C14: a combined setter writes the pan command, reads its reply, writes the  *)
(* tilt command, also after a negative acknowledgment of the pan command, and  *)
(* reads its reply; it writes the await command only after that and only when  *)
(* blocking was asked for; it returns the AND of the two acknowledgments       *)
(* (stated for replies whose parsed payload is not empty).                     *)
C14_PanThenTiltThenAwait ==
    (/\ pc = "returned"
     /\ last.op \in Combined
     /\ Len(last.ops) >= 2
     /\ last.ops[2].op = "read_until"
     /\ PanPayload # "")
    => /\ IsRoundTrip(1, CombinedMnemonics[last.op][1] \o IntToStr(last.args.pan) \o " ")
       /\ IsRoundTrip(3, CombinedMnemonics[last.op][2] \o IntToStr(last.args.tilt) \o " ")
       /\ IF last.args.blocking
          THEN Len(last.ops) = 6 /\ IsRoundTrip(5, "A ")
          ELSE Len(last.ops) = 4
       /\ TiltPayload # ""
          => /\ last.exc = "none"
             /\ last.ret = PyBool(Sub(PanPayload, 1, 1) = "*" /\ Sub(TiltPayload, 1, 1) = "*")

\* the mnemonics send knows as unsupported, and the advisories it has for them
UnsupportedMnemonics == {"LE", "LD", "LU", "PNU", "PXU", "TNU", "TXU", "I", "S", "ME", "MD"}
UnsupportedAdvisories ==
    {"Setting limits is not currently supported",
     "Changing execution mode is not currently supported",
     "Monitoring is not currently supported"}

\* the frame send makes of the caller's command, and the frame without its terminator
SentFrame == Upper(last.args.command.val)
SentMnemonic == Sub(SentFrame, 1, Len(SentFrame) - 1)

(* C15: send of a command whose mnemonic is one of LE, LD, LU, PNU, PXU, TNU,  *)
(* TXU, I, S, ME, MD emits an unsupported-command advisory and still writes    *)
(* the command and reads its reply; for any other command it emits none.       *)
C15_UnsupportedCommandAdvisory ==
    (/\ pc = "returned"
     /\ last.op = "send"
     /\ last.args.command.type \in {"str", "bytes"}
     /\ SentFrame # ""
     /\ Sub(SentFrame, Len(SentFrame), Len(SentFrame)) = " ")
    => IF SentMnemonic \in UnsupportedMnemonics
       THEN /\ \E k \in 1..Len(last.adv) : last.adv[k] \in UnsupportedAdvisories
            /\ \E i \in 1..Len(last.ops) : IsRoundTrip(i, SentFrame)
       ELSE \A k \in 1..Len(last.adv) : last.adv[k] \notin UnsupportedAdvisories

\* the attributes of the profile that have no setter
ProfileFields ==
    {"panResolution", "tiltResolution", "minPan", "maxPan", "minTilt", "maxTilt",
     "maxPanSpeed", "maxTiltSpeed"}

(* C16: once the session has started, no call changes the cached resolutions,  *)
(* position limits and speed limits, whatever the device replies; controlMode  *)
(* changes only in its setter, and the echo state only in the echo setter or   *)
(* in a send of EE or ED.                                                      *)
C16_ProfileFrame ==
    [][pc = "ready"
       => /\ DOMAIN profile' = DOMAIN profile
          /\ \A a \in ProfileFields : profile'[a] = profile[a]
          /\ profile'["controlMode"] # profile["controlMode"] => last'.op = "controlMode"
          /\ (echo' # echo \/ hasEcho' # hasEcho)
             => \/ last'.op = "echo"
                \/ /\ last'.op = "send"
                   /\ Upper(last'.args.command.val) \in {"EE ", "ED "}]_vars

C16_Witness ==
    /\ pc = "returned"
    /\ last.op = "controlMode"
    /\ last.modeBefore = "vel"
    /\ profile["controlMode"] = PyStr("pos")
    /\ profile["minPan"] = PyInt(-3090)
    /\ profile["maxPan"] = PyInt(309)
    /\ profile["panResolution"].val = "23.142857"

\* the command writes and the line reads of the last operation, in order
WireOps == SelectSeq(last.ops, LAMBDA o : o.op \in {"write", "read_until"})

(* C17: command writes and line reads alternate on the port: every operation   *)
(* starts its traffic with a write, follows every write by exactly one line    *)
(* read before its next write, and leaves no write unanswered when it ends, so *)
(* the alternation carries over from one operation to the next.                *)
C17_WritesAndReadsAlternate ==
    /\ Len(WireOps) % 2 = 0
    /\ \A i \in 1..Len(WireOps) :
          WireOps[i].op = IF i % 2 = 1 THEN "write" ELSE "read_until"

C17_Witness ==
    /\ pc = "returned"
    /\ last.op = "setSpeed"
    /\ last.args.blocking
    /\ Len(WireOps) = 6
    /\ WireOps[5] = [op |-> "write", data |-> "A "]

\* the rates the line-speed negotiation is documented for, and its command
NegotiableBauds == {600, 1200, 2400, 4800, 19200, 38400, 57600, 115200}
Negotiation(baud) == "@(" \o IntToStr(baud) \o ",0,F) "
Negotiations == {Negotiation(b) : b \in NegotiableBauds}

(* C18: __init__ writes the negotiation command '@(<baud>,0,F) ' exactly when  *)
(* the baud asked for is one of 600, 1200, 2400, 4800, 19200, 38400, 57600,    *)
(* 115200 and the rate was not already set; it then reads the reply before it  *)
(* changes the port's rate; for a baud outside the set other than 9600 it      *)
(* emits an advisory, writes nothing and leaves the rate at 9600.              *)
C18_BaudNegotiation ==
    last.op = "__init__"
    => LET baud == last.args.baud
           requested == baud \in NegotiableBauds /\ ~last.args.baud_already_set
       IN  /\ (\E i \in 1..Len(Writes) : Writes[i].data \in Negotiations) <=> requested
           /\ requested
              => /\ last.ops = <<[op |-> "open", data |-> "9600"],
                                 [op |-> "write", data |-> Negotiation(baud)],
                                 [op |-> "read_until", data |-> last.ops[3].data],
                                 [op |-> "baudrate", data |-> IntToStr(baud)]>>
                 /\ baudrate = baud
           /\ (baud \notin NegotiableBauds /\ baud # 9600)
              => /\ Len(last.adv) = 1
                 /\ Contains(last.adv[1], "Baud should be one of")
                 /\ Writes = <<>>
                 /\ baudrate = 9600

\* the queries of session start in the order of the listed steps
StartOrder == <<"E ", "PR ", "TR ", "PN ", "PX ", "TN ", "TX ", "PU ", "TU ", "C ">>

\* s is the beginning of t
IsPrefix(s, t) == Len(s) <= Len(t) /\ \A i \in 1..Len(s) : s[i] = t[i]

(* C19 as stated: the echo query is the first command session start writes,    *)
(* the informational queries and the control-mode query follow, and the        *)
(* negotiation command, when there is one, is written after the control-mode   *)
(* query.                                                                      *)
C19_NegotiationLast ==
    /\ startup # <<>> => startup[1] = "E "
    /\ \A i \in 1..Len(startup) :
          startup[i] \in Negotiations => \E j \in 1..(i - 1) : startup[j] = "C "

(* C19 amended: the negotiation command, when there is one, is the first       *)
(* command session start writes; the echo query follows, then PR, TR, PN, PX,  *)
(* TN, TX, PU, TU in this order, and the control-mode query is written last.   *)
C19_NegotiationFirst ==
    /\ \/ IsPrefix(startup, StartOrder)
       \/ \E n \in Negotiations : IsPrefix(startup, <<n>> \o StartOrder)
    /\ (last.op = "_determine_C" /\ last.exc = "none")
       => startup \in {StartOrder} \cup {<<n>> \o StartOrder : n \in Negotiations}

C19_Witness ==
    /\ pc = "returned"
    /\ last.op = "_determine_C"
    /\ startup = <<Negotiation(19200)>> \o StartOrder

(* C20: for the reply '* PTU is in Independent Mode' (echo stripped) to the    *)
(* control-mode query, _determine_control_mode returns 'pos'.                  *)
C20_IndependentModeIsPositional ==
    (/\ last.op = "_determine_C"
     /\ Len(LineReads) = 1
     /\ Terminated(LineReads[1].data)
     /\ ControlModePayload = "* PTU is in Independent Mode")
    => /\ last.exc = "none"
       /\ last.ret = PyStr("pos")

====
